---- MODULE Spec2Model ----
(***************************************************************************)
(* The video conversion pipeline of src/src/index.ts: the handler of       *)
(* POST /convert-video (validation, per-file fan-out, Promise.all, the     *)
(* response) and the handler of GET /download-video/:filename, over a      *)
(* shared file system.                                                     *)
(*                                                                         *)
(* Strings are sequences of tokens.  A token is one character ("w", ".",   *)
(* "/") or a run of characters that contains no ".", no "/" and no upper   *)
(* case letter ("_input", "mov", a uuid).  Concatenation is \o.  A path is *)
(* a sequence of segments, each segment a string.  An optional value       *)
(* (undefined | v) is <<>> or <<v>>.                                       *)
(*                                                                         *)
(* One action is one turn of the Node event loop: the code that runs from  *)
(* the completion of one awaited operation up to the next await.           *)
(***************************************************************************)
EXTENDS Integers, Sequences, FiniteSets, TLC

\* ---------------------------------------------------------------- bounds
MaxReq == 1      \* POST /convert-video requests handled
MaxBatches == 2  \* POST /convert-video requests handled, when batches overlap
MaxFiles == 2    \* files of one batch
MaxJobs == 2     \* jobs (uuids drawn) over all batches
MaxDeliveryJobs == 1  \* jobs (uuids drawn) while deliveries are modelled
MaxDownloads == 2     \* GET /download-video requests handled

\* ------------------------------------------------------- optional values
Undefined == <<>>
Some(v) == <<v>>

\* --------------------------------------------------------------- strings
UpperAlpha ==
  <<"A","B","C","D","E","F","G","H","I","J","K","L","M",
    "N","O","P","Q","R","S","T","U","V","W","X","Y","Z">>
LowerAlpha ==
  <<"a","b","c","d","e","f","g","h","i","j","k","l","m",
    "n","o","p","q","r","s","t","u","v","w","x","y","z">>

\* String.prototype.toLowerCase
toLowerCase(s) ==
  [i \in 1..Len(s) |->
     IF \E k \in 1..Len(UpperAlpha) : UpperAlpha[k] = s[i]
     THEN LowerAlpha[CHOOSE k \in 1..Len(UpperAlpha) : UpperAlpha[k] = s[i]]
     ELSE s[i]]

\* the largest index of token c in s, 0 when there is none
LastIndexOf(s, c) ==
  IF \E i \in 1..Len(s) : s[i] = c
  THEN CHOOSE i \in 1..Len(s) : s[i] = c /\ \A j \in (i+1)..Len(s) : s[j] # c
  ELSE 0

\* the part of a string after its last "/"
LastSegment(s) == SubSeq(s, LastIndexOf(s, "/") + 1, Len(s))

\* path.extname: from the last "." of the last segment to its end; empty when
\* there is no ".", or the only "." is the segment's first character
extname(s) ==
  LET b == LastSegment(s)
      d == LastIndexOf(b, ".")
  IN  IF d <= 1 \/ b = <<".", ".">> THEN <<>> ELSE SubSeq(b, d, Len(b))

\* the segments of a string, split at "/"
RECURSIVE SplitSegments(_)
SplitSegments(s) ==
  IF \E i \in 1..Len(s) : s[i] = "/"
  THEN LET i == CHOOSE k \in 1..Len(s) : s[k] = "/" /\ \A j \in 1..(k-1) : s[j] # "/"
       IN  <<SubSeq(s, 1, i - 1)>> \o SplitSegments(SubSeq(s, i + 1, Len(s)))
  ELSE <<s>>

\* path.normalize of an absolute path: "" and "." are dropped, ".." removes the
\* segment before it (and is dropped at the root)
RECURSIVE Normalize(_, _)
Normalize(done, rest) ==
  IF rest = <<>> THEN done
  ELSE LET h == Head(rest)
       IN  IF h = <<>> \/ h = <<".">> THEN Normalize(done, Tail(rest))
           ELSE IF h = <<".", ".">>
                THEN Normalize(IF done = <<>> THEN done
                               ELSE SubSeq(done, 1, Len(done) - 1), Tail(rest))
                ELSE Normalize(Append(done, h), Tail(rest))

\* the scratch root "/tmp"
ScratchRoot == <<<<"tmp">>>>

\* path.join("/tmp", name)
JoinTmp(name) == Normalize(ScratchRoot, SplitSegments(name))

\* path.basename of an absolute path
basename(p) == IF p = <<>> THEN <<>> ELSE p[Len(p)]

\* a path lies strictly inside the scratch root
InScratch(p) == Len(p) > 1 /\ SubSeq(p, 1, 1) = ScratchRoot

\* -------------------------------------------------------------- formats
\* allowedVideoFormats, a Map from format to MIME type
allowedVideoFormats ==
  << <<<<"m","p","4">>, "video/mp4">>, <<<<"w","e","b","m">>, "video/webm">> >>

\* Map.prototype.get
MapGet(m, k) ==
  IF \E i \in 1..Len(m) : m[i][1] = k
  THEN Some(m[CHOOSE i \in 1..Len(m) : m[i][1] = k][2])
  ELSE Undefined

\* ---------------------------------------------------------------- inputs
\* uploaded files (Express.Multer.File): originalname and size of the buffer
Upload(i) ==
  IF i % 2 = 1 THEN [originalname |-> <<"a", ".", "mov">>, size |-> 1]
  ELSE [originalname |-> <<"b">>, size |-> 1]

\* req.files: undefined, or an array of at most MaxFiles uploaded files
FileLists ==
  {Undefined} \cup { Some([i \in 1..n |-> Upload(i)]) : n \in 0..MaxFiles }

\* req.body.format: undefined, or a string
Formats ==
  { Undefined, Some(<<>>), Some(<<"m","p","4">>), Some(<<"w","e","b","m">>),
    Some(<<"W","E","B","M">>), Some(<<"e","x","e">>) }

\* the k-th value of uuidv4(): every call returns a value not returned before
Uuid(k) == ToString(k)

\* the ways an encoder process that was started ends: the code of its 'close'
\* event (a number, or null when a signal ended it), the file it left at the
\* output path (none, or its size) and the text it wrote to stderr
ProcEnds ==
  { [code |-> Some(0), out |-> Undefined, stderr |-> <<>>],
    [code |-> Some(0), out |-> Some(0), stderr |-> <<>>],
    [code |-> Some(0), out |-> Some(1), stderr |-> <<"stderr">>],
    [code |-> Some(1), out |-> Some(1), stderr |-> <<"stderr">>],
    [code |-> Undefined, out |-> Undefined, stderr |-> <<>>] }

\* the 'close' event that follows a failed spawn: its code is -errno
SpawnFailedEnd == [code |-> Some(-2), out |-> Undefined, stderr |-> <<>>]

\* ----------------------------------------------------------------- state
VARIABLES
  reqs,   \* the POST /convert-video requests: handler position, jobs, response
  disk,   \* the file system: path -> size of the file
  used,   \* the number of uuids drawn so far
  dl      \* the GET /download-video requests: handler position, response

vars == <<reqs, disk, used, dl>>

\* the POST /convert-video requests the server handles
Requests == DOMAIN reqs

\* reordered: some job of the batch completed before a job of an earlier file;
\* responses: the number of responses the handler sent
NoRequest ==
  [pc |-> "none", files |-> Undefined, format |-> Undefined, jobs |-> <<>>,
   reordered |-> FALSE, response |-> Undefined, responses |-> 0]

\* headersSent: res.headersSent; sent: the number of times the handler sent a
\* status and a body
NoDownload ==
  [pc |-> "none", filename |-> <<>>, filePath |-> <<>>, mimeType |-> "",
   headersSent |-> FALSE, sent |-> 0, response |-> Undefined]

\* a file outside the scratch root
OutsideFile == << <<"etc">>, <<"passwd">> >>

Init ==
  /\ reqs = [r \in 1..MaxReq |-> NoRequest]
  /\ disk = (OutsideFile :> 1)
  /\ used = 0
  /\ dl = [d \in 1..MaxDownloads |-> NoDownload]

\* the server handles up to MaxBatches POST /convert-video requests
InitBatches ==
  /\ reqs = [r \in 1..MaxBatches |-> NoRequest]
  /\ disk = (OutsideFile :> 1)
  /\ used = 0
  /\ dl = [d \in 1..MaxDownloads |-> NoDownload]

\* ------------------------------------------------------- file operations
Exists(d, p) == p \in DOMAIN d

\* the file system after path p holds a file of size n
WriteTo(d, p, n) == [q \in DOMAIN d \cup {p} |-> IF q = p THEN n ELSE d[q]]

\* the file system after fs.unlink(p): p is gone (ENOENT, which the caller
\* catches, when it was not there)
Unlink(d, p) == [q \in DOMAIN d \ {p} |-> d[q]]

\* ------------------------------------------------ POST /convert-video
\* the 400 answer to an empty or absent file list
NoFilesResponse == [status |-> 400, body |-> [error |-> "No video files uploaded."]]

\* the 400 answer to an invalid format
BadFormatResponse ==
  [status |-> 400,
   body |-> [error |->
     "Invalid or missing target video format. Supported formats: mp4, webm."]]

\* the answer of the framework's error handler to an exception thrown by the
\* handler
ThrownResponse == [status |-> 500, body |-> [error |-> "TypeError"]]

\* a validation that checks the files only
ValidateFilesOnly(files, format) ==
  IF files = Undefined \/ Len(files[1]) = 0 THEN Some(NoFilesResponse)
  ELSE IF format = Undefined THEN Some(ThrownResponse) ELSE Undefined

\* the validation of the handler: the response it sends, or Undefined when the
\* batch is accepted
Validate(files, format) ==
  IF files = Undefined \/ Len(files[1]) = 0 THEN Some(NoFilesResponse)
  ELSE IF format = Undefined
       THEN Some(ThrownResponse)       \* undefined.toLowerCase() throws
       ELSE LET targetFormat == format[1]
                targetMimeType == MapGet(allowedVideoFormats, toLowerCase(targetFormat))
            IN  IF targetFormat = <<>> \/ targetMimeType = Undefined
                THEN Some(BadFormatResponse)
                ELSE Undefined

\* a job that names its files after the format alone, without the unique id
NewJobUnnamespaced(file, uniqueId, targetFormat) ==
  [file |-> file,
   uniqueId |-> uniqueId,
   inputFilePath |-> JoinTmp(<<"_input">> \o extname(file.originalname)),
   outputFilePath |-> JoinTmp(<<"_output", ".">> \o toLowerCase(targetFormat)),
   pc |-> "writeFile", ffmpegArgs |-> Undefined, promise |-> "none",
   proc |-> "none", wrote |-> Undefined, events |-> <<>>, statted |-> Undefined,
   unlinks |-> <<>>, result |-> Undefined]

\* the job of one file, up to the first await: names, paths, writeFile issued
NewJob(file, uniqueId, targetFormat) ==
  LET inputFileName  == <<uniqueId, "_input">> \o extname(file.originalname)
      outputFileName == <<uniqueId, "_output", ".">> \o toLowerCase(targetFormat)
  IN  [file |-> file,
       uniqueId |-> uniqueId,
       inputFilePath |-> JoinTmp(inputFileName),
       outputFilePath |-> JoinTmp(outputFileName),
       pc |-> "writeFile",
       ffmpegArgs |-> Undefined,   \* the arguments of spawn, once spawned
       promise |-> "none",         \* the Promise over the process events
       proc |-> "none",            \* the encoder process
       wrote |-> Undefined,        \* whether writeFile succeeded
       events |-> <<>>,            \* the terminal events the process emitted
       statted |-> Undefined,      \* whether fs.stat succeeded
       unlinks |-> <<>>,           \* the paths this job called fs.unlink on
       result |-> Undefined]

\* the handler up to its first await: validation, then files.map starts every
\* job
ConvertVideo(r, files, format) ==
  /\ reqs[r].pc = "none"
  /\ \A q \in 1..(r - 1) : reqs[q].pc # "none"
  /\ LET v == Validate(files, format)
     IN  IF v # Undefined
         THEN /\ reqs' = [reqs EXCEPT ![r] =
                    [@ EXCEPT !.pc = "responded", !.response = v, !.responses = 1]]
              /\ UNCHANGED <<disk, used, dl>>
         ELSE /\ used + Len(files[1]) <= MaxJobs
              /\ reqs' = [reqs EXCEPT ![r] =
                   [@ EXCEPT !.pc = "running", !.files = files, !.format = format,
                             !.jobs = [i \in 1..Len(files[1]) |->
                                         NewJob(files[1][i], Uuid(used + i), format[1])]]]
              /\ used' = used + Len(files[1])
              /\ UNCHANGED <<disk, dl>>

\* ---------------------------------------------------- the per-file job
\* req.protocol, "://", req.get("host") and the route of the delivery endpoint
DownloadPrefix == <<"http", "://", "localhost", "/download-video/">>

\* a success entry named after the uploaded file, as the image endpoint names
\* its results
SuccessResultByOriginalName(file, outputFilePath, targetMimeType, convertedFileSize) ==
  [originalName |-> file.originalname,
   newName |-> file.originalname \o extname(basename(outputFilePath)),
   mimeType |-> targetMimeType,
   downloadUrl |-> DownloadPrefix \o basename(outputFilePath),
   size |-> convertedFileSize]

\* the entry returned by the try block
SuccessResult(file, outputFilePath, targetMimeType, convertedFileSize) ==
  [originalName |-> file.originalname,
   newName |-> basename(outputFilePath),
   mimeType |-> targetMimeType,
   downloadUrl |-> DownloadPrefix \o basename(outputFilePath),
   size |-> convertedFileSize]

\* the entry returned by the catch block for an error with this message
FailureResult(file, message) ==
  [originalName |-> file.originalname,
   newName |-> file.originalname \o <<".", "error">>,
   mimeType |-> "application/octet-stream",
   downloadUrl |-> <<"#">>,
   error |-> <<"Failed to convert: ">> \o
             (IF message = <<>> THEN <<"Unknown error">> ELSE message)]

\* a finally block that cleans nothing up
FinallySkip(j) == [j EXCEPT !.pc = "done"]

\* the finally block up to its await: when inputFilePath is set,
\* fs.unlink(inputFilePath) is called and awaited; otherwise the block ends at
\* once
Finally(j) ==
  IF j.inputFilePath # Undefined
  THEN [j EXCEPT !.pc = "unlink", !.unlinks = Append(@, j.inputFilePath)]
  ELSE [j EXCEPT !.pc = "done"]

\* a catch block that unlinks the input itself, before the finally block does
CaughtTwice(j, message) ==
  Finally([j EXCEPT !.result = Some(FailureResult(j.file, message)),
                    !.unlinks = Append(@, j.inputFilePath)])

\* the catch block, then the finally block
Caught(j, message) ==
  Finally([j EXCEPT !.result = Some(FailureResult(j.file, message))])

\* the arguments of the encoder
FfmpegArgs(j, targetFormat) ==
  [i |-> j.inputFilePath,
   cv |-> IF targetFormat = <<"w","e","b","m">> THEN "libvpx" ELSE "libx264",
   preset |-> "veryfast", crf |-> "28", threads |-> "0",
   y |-> j.outputFilePath]

\* the code after a successful writeFile: spawn, the handlers are attached, the
\* job awaits the Promise
Spawn(j, targetFormat) ==
  [j EXCEPT !.ffmpegArgs = Some(FfmpegArgs(j, targetFormat)),
            !.proc = "spawned", !.promise = "pending", !.pc = "process"]

\* resolve() of the Promise: the first settlement wins; the job goes on to
\* fs.stat
Resolve(j) ==
  IF j.promise = "pending"
  THEN [j EXCEPT !.promise = "fulfilled", !.pc = "stat"]
  ELSE j

\* a rejection that throws into the catch block whether or not the Promise was
\* settled before
RejectAlways(j, message) == Caught([j EXCEPT !.promise = "rejected"], message)

\* reject(new Error(message)) of the Promise: the first settlement wins; the
\* await throws into the catch block
Reject(j, message) ==
  IF j.promise = "pending"
  THEN Caught([j EXCEPT !.promise = "rejected"], message)
  ELSE j

\* a 'close' handler that settles nothing when the exit code is not 0
OnCloseZeroOnly(j, code, ffmpegErrorOutput) ==
  IF code = Some(0) THEN Resolve(j) ELSE j

\* a 'close' handler that does not look at the exit code
OnCloseAnyCode(j, code, ffmpegErrorOutput) == Resolve(j)

\* the 'close' handler
OnClose(j, code, ffmpegErrorOutput) ==
  IF code = Some(0)
  THEN Resolve(j)
  ELSE Reject(j, <<"FFmpeg conversion failed: ">> \o
                 (IF ffmpegErrorOutput = <<>> THEN <<"Unknown FFmpeg error">>
                  ELSE ffmpegErrorOutput))

\* the 'error' handler
OnError(j, message) == Reject(j, <<"Failed to start FFmpeg: ">> \o message)

\* a gathering that keeps the entries of the successful jobs only
PromiseAllFulfilled(rq) ==
  SelectSeq([i \in 1..Len(rq.jobs) |-> rq.jobs[i].result[1]],
            LAMBDA e : "size" \in DOMAIN e)

\* Promise.all over the jobs of a request: the results in the order of the files
PromiseAll(rq) == [i \in 1..Len(rq.jobs) |-> rq.jobs[i].result[1]]

\* the message of the response to an accepted batch
BatchMessage ==
  "Video conversion completed. Download links point to temporary server files."

\* a batch that fails as a whole when one of its files failed
BatchResponseFailFast(convertedResults) ==
  IF \E i \in 1..Len(convertedResults) : "error" \in DOMAIN convertedResults[i]
  THEN ThrownResponse
  ELSE [status |-> 200,
        body |-> [success |-> TRUE, message |-> BatchMessage,
                  convertedFiles |-> convertedResults]]

\* the response to an accepted batch
BatchResponse(convertedResults) ==
  [status |-> 200,
   body |-> [success |-> TRUE,
             message |-> BatchMessage,
             convertedFiles |-> convertedResults]]

\* a handler that answers as soon as one job has completed, with the entries of
\* the jobs completed so far
ProgressFirstDone(rq, i, j) ==
  LET rq1 == [rq EXCEPT !.jobs[i] = j]
      finished == SelectSeq(rq1.jobs, LAMBDA x : x.pc = "done")
  IN  IF rq.pc = "running" /\ finished # <<>>
      THEN [rq1 EXCEPT !.pc = "responded",
                       !.response = Some(BatchResponse(
                          [k \in 1..Len(finished) |-> finished[k].result[1]])),
                       !.responses = @ + 1]
      ELSE rq1

\* a request after its job i became j: the handler answers when that was the
\* last job to complete
Progress(rq, i, j) ==
  LET rq1 == [rq EXCEPT !.jobs[i] = j,
                        !.reordered = @ \/ (j.pc = "done" /\
                                            \E k \in 1..(i - 1) : rq.jobs[k].pc # "done")]
  IN  IF rq.pc = "running" /\ \A k \in 1..Len(rq1.jobs) : rq1.jobs[k].pc = "done"
      THEN [rq1 EXCEPT !.pc = "responded",
                       !.response = Some(BatchResponse(PromiseAll(rq1))),
                       !.responses = @ + 1]
      ELSE rq1

\* a job that spawns the encoder whatever became of the write
WriteFileDoneSpawnAnyway(r, i, outcome) ==
  /\ reqs[r].pc = "running"
  /\ i \in 1..Len(reqs[r].jobs)
  /\ reqs[r].jobs[i].pc = "writeFile"
  /\ LET j == reqs[r].jobs[i]
     IN  /\ disk' = IF outcome = "written" THEN WriteTo(disk, j.inputFilePath, j.file.size)
                    ELSE IF outcome = "truncated" THEN WriteTo(disk, j.inputFilePath, 0)
                    ELSE disk
         /\ reqs' = [reqs EXCEPT ![r] =
              Progress(@, i, Spawn([j EXCEPT !.wrote = Some(outcome = "written")],
                                   reqs[r].format[1]))]
  /\ UNCHANGED <<used, dl>>

\* fs.writeFile(inputFilePath, file.buffer) completes: written, or failed
\* leaving nothing or a truncated file
WriteFileDone(r, i, outcome) ==
  /\ reqs[r].pc = "running"
  /\ i \in 1..Len(reqs[r].jobs)
  /\ reqs[r].jobs[i].pc = "writeFile"
  /\ LET j == reqs[r].jobs[i]
     IN  IF outcome = "written"
         THEN /\ disk' = WriteTo(disk, j.inputFilePath, j.file.size)
              /\ reqs' = [reqs EXCEPT ![r] =
                   Progress(@, i, Spawn([j EXCEPT !.wrote = Some(TRUE)],
                                        reqs[r].format[1]))]
         ELSE /\ disk' = IF outcome = "truncated"
                         THEN WriteTo(disk, j.inputFilePath, 0) ELSE disk
              /\ reqs' = [reqs EXCEPT ![r] =
                   Progress(@, i, Caught([j EXCEPT !.wrote = Some(FALSE)],
                                         <<"ENOSPC">>))]
  /\ UNCHANGED <<used, dl>>

\* the process could not be started: it emits 'error'
ProcError(r, i) ==
  /\ reqs[r].pc = "running"
  /\ i \in 1..Len(reqs[r].jobs)
  /\ reqs[r].jobs[i].proc = "spawned"
  /\ LET j == reqs[r].jobs[i]
     IN  reqs' = [reqs EXCEPT ![r] =
           Progress(@, i, OnError([j EXCEPT !.proc = "errored",
                                            !.events = Append(@, [type |-> "error"])],
                                  <<"spawn ffmpeg ENOENT">>))]
  /\ UNCHANGED <<disk, used, dl>>

\* the process ends and its streams are closed: it emits 'close' with its exit
\* code (with -errno after a failed spawn); out is what it left at the output
\* path
ProcClose(r, i, end) ==
  /\ i \in 1..Len(reqs[r].jobs)
  /\ reqs[r].jobs[i].proc \in {"spawned", "errored"}
  /\ LET j == reqs[r].jobs[i]
     IN  /\ IF j.proc = "errored" THEN end = SpawnFailedEnd ELSE end \in ProcEnds
         /\ disk' = IF end.out = Undefined THEN disk
                    ELSE WriteTo(disk, j.outputFilePath, end.out[1])
         /\ reqs' = [reqs EXCEPT ![r] =
              Progress(@, i,
                OnClose([j EXCEPT !.proc = "closed",
                                  !.events = Append(@, [type |-> "close",
                                                        code |-> end.code])],
                        end.code, end.stderr))]
  /\ UNCHANGED <<used, dl>>

\* fs.stat(outputFilePath) completes; the try block returns the success entry,
\* or the catch block the failure entry; then the finally block
StatDone(r, i) ==
  /\ reqs[r].pc = "running"
  /\ i \in 1..Len(reqs[r].jobs)
  /\ reqs[r].jobs[i].pc = "stat"
  /\ LET j == reqs[r].jobs[i]
         targetMimeType == MapGet(allowedVideoFormats, toLowerCase(reqs[r].format[1]))
     IN  reqs' = [reqs EXCEPT ![r] =
           Progress(@, i,
             IF Exists(disk, j.outputFilePath)
             THEN Finally([j EXCEPT !.statted = Some(TRUE),
                                    !.result = Some(SuccessResult(j.file, j.outputFilePath,
                                                 targetMimeType[1], disk[j.outputFilePath]))])
             ELSE Caught([j EXCEPT !.statted = Some(FALSE)], <<"ENOENT">>))]
  /\ UNCHANGED <<disk, used, dl>>

\* fs.unlink(inputFilePath) completes (an error of it is caught and logged);
\* the job's function returns
UnlinkDone(r, i) ==
  /\ reqs[r].pc = "running"
  /\ i \in 1..Len(reqs[r].jobs)
  /\ reqs[r].jobs[i].pc = "unlink"
  /\ LET j == reqs[r].jobs[i]
     IN  /\ disk' = Unlink(disk, j.unlinks[Len(j.unlinks)])
         /\ reqs' = [reqs EXCEPT ![r] = Progress(@, i, [j EXCEPT !.pc = "done"])]
  /\ UNCHANGED <<used, dl>>

\* ------------------------------------------- GET /download-video/:filename
\* a name no job ever had
MissingName == <<"abc", "_output", ".", "m", "p", "4">>

\* "../etc/passwd", the filename parameter of /download-video/..%2Fetc%2Fpasswd
TraversalName == <<".", ".", "/", "etc", "/", "passwd">>

\* the filename parameters of the requests: the names of the jobs' files, the
\* names the result entries carry, a name no job had, a name with a directory
\* traversal
DownloadNames ==
  { MissingName, TraversalName } \cup
  UNION { UNION { { basename(reqs[r].jobs[i].inputFilePath),
                    basename(reqs[r].jobs[i].outputFilePath) } \cup
                  { reqs[r].jobs[i].result[k].newName :
                      k \in DOMAIN reqs[r].jobs[i].result } :
                  i \in DOMAIN reqs[r].jobs } :
          r \in Requests }

\* a mapping from the extension that knows .mp4 only
MimeOfNameMp4Only(filename) ==
  IF toLowerCase(extname(filename)) = <<".", "m", "p", "4">> THEN "video/mp4"
  ELSE "application/octet-stream"

\* the MIME type the handler derives from the extension of the filename
MimeOfName(filename) ==
  LET ext == toLowerCase(extname(filename))
  IN  IF ext = <<".", "m", "p", "4">> THEN "video/mp4"
      ELSE IF ext = <<".", "w", "e", "b", "m">> THEN "video/webm"
      ELSE "application/octet-stream"

\* the 404 answer of the catch block
NotFoundResponse == [status |-> 404, text |-> "File not found or not accessible."]

\* the 404 answer of the callback of res.download
GoneResponse ==
  [status |-> 404, text |->
  "File not found or no longer available. It might have been automatically cleaned up by the OS."]

\* the handler up to its await: fs.access(filePath) is called
Download(d, filename) ==
  /\ dl[d].pc = "none"
  /\ \A q \in 1..(d - 1) : dl[q].pc # "none"
  /\ dl' = [dl EXCEPT ![d] = [NoDownload EXCEPT !.pc = "access",
                                                !.filename = filename,
                                                !.filePath = JoinTmp(filename)]]
  /\ UNCHANGED <<reqs, disk, used>>

\* fs.access completes: the headers are set and res.download is called, or the
\* catch block answers 404
AccessDone(d) ==
  /\ dl[d].pc = "access"
  /\ dl' = [dl EXCEPT ![d] =
             IF Exists(disk, dl[d].filePath)
             THEN [@ EXCEPT !.pc = "download", !.mimeType = MimeOfName(dl[d].filename)]
             ELSE [@ EXCEPT !.pc = "responded", !.sent = @ + 1,
                            !.response = Some(NotFoundResponse)]]
  /\ UNCHANGED <<reqs, disk, used>>

\* res.download streams the file: the status 200 and the headers are sent, then
\* the body, to its end or up to an error
SendFile(s, size, streamed) ==
  [s EXCEPT !.headersSent = TRUE, !.sent = @ + 1,
            !.response = Some([status |-> 200, contentType |-> s.mimeType,
                               file |-> s.filePath, size |-> size,
                               complete |-> streamed])]

\* a callback that only logs the error
DownloadCallbackSilent(s, err) == s

\* a callback that answers 404 to every error
DownloadCallbackAlways404(s, err) ==
  IF err
  THEN [s EXCEPT !.sent = @ + 1, !.response = Some(GoneResponse)]
  ELSE s

\* the callback of res.download
DownloadCallback(s, err) ==
  IF err
  THEN IF s.headersSent THEN s
       ELSE [s EXCEPT !.sent = @ + 1, !.response = Some(GoneResponse)]
  ELSE s

\* a handler that removes the file once it was served
DownloadDoneAndRemove(d, streamed) ==
  /\ dl[d].pc = "download"
  /\ dl' = [dl EXCEPT ![d] =
             [(IF ~Exists(disk, dl[d].filePath)
               THEN DownloadCallback(@, TRUE)
               ELSE DownloadCallback(SendFile(@, disk[dl[d].filePath], streamed),
                                     ~streamed))
              EXCEPT !.pc = "responded"]]
  /\ disk' = Unlink(disk, dl[d].filePath)
  /\ UNCHANGED <<reqs, used>>

\* res.download completes and calls back: the file was gone before the headers
\* were sent, or the file was streamed, to its end or up to an error after the
\* headers were sent
DownloadDone(d, streamed) ==
  /\ dl[d].pc = "download"
  /\ dl' = [dl EXCEPT ![d] =
             [(IF ~Exists(disk, dl[d].filePath)
               THEN DownloadCallback(@, TRUE)
               ELSE DownloadCallback(SendFile(@, disk[dl[d].filePath], streamed),
                                     ~streamed))
              EXCEPT !.pc = "responded"]]
  /\ UNCHANGED <<reqs, disk, used>>

\* ------------------------------------------------------- specifications
\* the conversion pipeline alone
Next ==
  \/ \E r \in Requests, files \in FileLists, format \in Formats :
       ConvertVideo(r, files, format)
  \/ \E r \in Requests, i \in 1..MaxFiles,
        outcome \in {"written", "failed", "truncated"} : WriteFileDone(r, i, outcome)
  \/ \E r \in Requests, i \in 1..MaxFiles : ProcError(r, i)
  \/ \E r \in Requests, i \in 1..MaxFiles, end \in ProcEnds \cup {SpawnFailedEnd} :
       ProcClose(r, i, end)
  \/ \E r \in Requests, i \in 1..MaxFiles : StatDone(r, i)
  \/ \E r \in Requests, i \in 1..MaxFiles : UnlinkDone(r, i)

Spec == Init /\ [][Next]_vars

\* the conversion pipeline when every file system operation that was issued
\* completes: the completions of fs.writeFile, fs.stat and fs.unlink are
\* delivered by the event loop.  Nothing is assumed of the encoder processes.
SpecFair ==
  /\ Init
  /\ [][Next]_vars
  /\ \A r \in 1..MaxReq, i \in 1..MaxFiles :
       /\ WF_vars(\E outcome \in {"written", "failed", "truncated"} :
                    WriteFileDone(r, i, outcome))
       /\ WF_vars(StatDone(r, i))
       /\ WF_vars(UnlinkDone(r, i))

\* the conversion pipeline with overlapping batches
SpecBatches == InitBatches /\ [][Next]_vars

\* the conversion pipeline and the delivery endpoint
NextDelivery ==
  \/ \E r \in Requests, files \in FileLists, format \in Formats :
       ConvertVideo(r, files, format) /\ used' <= MaxDeliveryJobs
  \/ \E r \in Requests, i \in 1..MaxFiles,
        outcome \in {"written", "failed", "truncated"} : WriteFileDone(r, i, outcome)
  \/ \E r \in Requests, i \in 1..MaxFiles : ProcError(r, i)
  \/ \E r \in Requests, i \in 1..MaxFiles, end \in ProcEnds \cup {SpawnFailedEnd} :
       ProcClose(r, i, end)
  \/ \E r \in Requests, i \in 1..MaxFiles : StatDone(r, i)
  \/ \E r \in Requests, i \in 1..MaxFiles : UnlinkDone(r, i)
  \/ \E d \in 1..MaxDownloads, filename \in DownloadNames : Download(d, filename)
  \/ \E d \in 1..MaxDownloads : AccessDone(d)
  \/ \E d \in 1..MaxDownloads, streamed \in BOOLEAN : DownloadDone(d, streamed)

SpecDelivery == Init /\ [][NextDelivery]_vars

\* ------------------------------------------------------------ the claims
\* the jobs started so far
JobIds == { <<r, i>> : r \in Requests, i \in 1..MaxFiles }
Started == { id \in JobIds : id[2] \in DOMAIN reqs[id[1]].jobs }
Job(id) == reqs[id[1]].jobs[id[2]]

\* the accepted batches that were answered
Answered == { r \in Requests : reqs[r].pc = "responded" /\ reqs[r].jobs # <<>> }
ConvertedFiles(r) == reqs[r].response[1].body.convertedFiles

IsSuccess(e) == DOMAIN e = {"originalName", "newName", "mimeType", "downloadUrl", "size"}
IsFailure(e) == DOMAIN e = {"originalName", "newName", "mimeType", "downloadUrl", "error"}

\* the job has a result and it is a success, a failure
Succeeded(j) == j.result # Undefined /\ IsSuccess(j.result[1])
Failed(j) == j.result # Undefined /\ IsFailure(j.result[1])

\* what happened to the job itself: its write succeeded, its encoder's first
\* terminal event was 'close' with code 0, the stat of its output succeeded
WriteOk(j) == j.wrote = Some(TRUE)
ExitZero(j) == j.events # <<>> /\ j.events[1] = [type |-> "close", code |-> Some(0)]
StatOk(j) == j.statted = Some(TRUE)

\* C1: the convertedFiles array of an answered batch of N files has N entries,
\* and entry i carries the originalName of the i-th submitted file, whatever
\* the order of completion and whichever jobs failed.
C1_ResultsInSubmissionOrder ==
  \A r \in Answered :
    /\ Len(ConvertedFiles(r)) = Len(reqs[r].files[1])
    /\ \A i \in 1..Len(reqs[r].files[1]) :
         ConvertedFiles(r)[i].originalName = reqs[r].files[1][i].originalname

\* a batch answered after a later file completed before an earlier one, with a
\* failed first file and a successful second file
C1_Witness ==
  \E r \in Answered :
    /\ reqs[r].reordered
    /\ Len(reqs[r].jobs) >= 2
    /\ Failed(reqs[r].jobs[1])
    /\ Succeeded(reqs[r].jobs[2])

\* C2: once the unit of work of a file has completed, on any path, its input
\* file does not exist.
C2_InputGoneWhenDone ==
  \A id \in Started : Job(id).pc = "done" => ~Exists(disk, Job(id).inputFilePath)

\* completed jobs of one batch: one whose input was written and whose encoder
\* failed, one whose write failed
C2_Witness ==
  \E r \in Requests :
    /\ Len(reqs[r].jobs) >= 2
    /\ \A i \in 1..2 : reqs[r].jobs[i].pc = "done"
    /\ WriteOk(reqs[r].jobs[1]) /\ Failed(reqs[r].jobs[1])
    /\ ~WriteOk(reqs[r].jobs[2])

\* C3: an accepted batch is always answered 200 with success: true and one
\* entry per file, and the entry of a file is a failure exactly when that
\* file's own write, encoder or stat failed.
C3_FailuresStayInTheirFile ==
  \A r \in Answered :
    /\ reqs[r].response[1].status = 200
    /\ reqs[r].response[1].body.success = TRUE
    /\ Len(ConvertedFiles(r)) = Len(reqs[r].jobs)
    /\ \A i \in 1..Len(reqs[r].jobs) :
         LET j == reqs[r].jobs[i]
         IN  /\ IsFailure(ConvertedFiles(r)[i]) <=> ~(WriteOk(j) /\ ExitZero(j) /\ StatOk(j))
             /\ IsSuccess(ConvertedFiles(r)[i]) <=> (WriteOk(j) /\ ExitZero(j) /\ StatOk(j))

\* an answered batch whose first file succeeded and whose second file failed
C3_Witness ==
  \E r \in Answered :
    /\ Len(reqs[r].jobs) >= 2
    /\ IsSuccess(ConvertedFiles(r)[1])
    /\ IsFailure(ConvertedFiles(r)[2])
    /\ ~ExitZero(reqs[r].jobs[2])

\* the requests the validation is meant to reject: no file list, an empty file
\* list, or a format string that is, in lower case, no key of the allow-list
Rejectable(files, format) ==
  \/ files = Undefined
  \/ Len(files[1]) = 0
  \/ /\ format # Undefined
     /\ \A k \in 1..Len(allowedVideoFormats) :
          allowedVideoFormats[k][1] # toLowerCase(format[1])

\* C4: a request that fails validation is answered 400 at once, starts no job,
\* draws no uuid and leaves the file system unchanged; nothing happens for it
\* afterwards.
C4_RejectedDoesNothing ==
  [][\A r \in Requests :
       /\ \A files \in FileLists, format \in Formats :
            (Rejectable(files, format) /\ ConvertVideo(r, files, format))
            => /\ reqs'[r].pc = "responded"
               /\ reqs'[r].response # Undefined
               /\ reqs'[r].response[1].status = 400
               /\ reqs'[r].jobs = <<>>
               /\ disk' = disk
               /\ used' = used
       /\ (reqs[r].pc = "responded" /\ reqs[r].jobs = <<>>) => reqs'[r] = reqs[r]]_vars

\* a request was rejected with 400
C4_Witness ==
  \E r \in Requests :
    /\ reqs[r].pc = "responded"
    /\ reqs[r].jobs = <<>>
    /\ reqs[r].response[1].status = 400

\* C5: a request with at least one file and no format field is answered 400
\* with the message that lists the supported formats.
C5_MissingFormatIs400 ==
  [][\A r \in Requests, files \in FileLists :
       (files # Undefined /\ Len(files[1]) >= 1 /\ ConvertVideo(r, files, Undefined))
       => reqs'[r].response = Some(BadFormatResponse)]_vars

\* C6: the output file of a job that completed with a success entry exists
\* and stays; a GET /download-video/<newName> answered while the job is in
\* that state streams that file (200), it is not answered not-found.
C6_SuccessIsDownloadable ==
  [][\A id \in Started :
       (Job(id).pc = "done" /\ Succeeded(Job(id)))
       => /\ Exists(disk, Job(id).outputFilePath)
          /\ Exists(disk', Job(id).outputFilePath)
          /\ \A d \in 1..MaxDownloads :
               (/\ dl[d].filename = Job(id).result[1].newName
                /\ dl[d].pc \in {"access", "download"}
                /\ dl'[d].pc = "responded")
               => /\ dl'[d].response[1].status = 200
                  /\ dl'[d].response[1].file = Job(id).outputFilePath]_vars

\* the delivery endpoint streamed the output file of a completed successful job
\* for the newName of its entry
C6_Witness ==
  \E id \in Started, d \in 1..MaxDownloads :
    /\ Job(id).pc = "done"
    /\ Succeeded(Job(id))
    /\ dl[d].pc = "responded"
    /\ dl[d].filename = Job(id).result[1].newName
    /\ dl[d].response[1].status = 200
    /\ dl[d].response[1].file = Job(id).outputFilePath
    /\ dl[d].response[1].complete

\* C7: the size of every success entry is strictly positive.
C7_SuccessSizePositive ==
  \A id \in Started : Succeeded(Job(id)) => Job(id).result[1].size > 0

\* the MIME type of the allow-list entry a format is accepted as
TargetMime(format) ==
  IF toLowerCase(format) = <<"m", "p", "4">> THEN "video/mp4" ELSE "video/webm"

\* C8: the entry of a job is the success shape (newName of the output file, the
\* target MIME type, a downloadUrl other than "#", size, no error) exactly when
\* its write succeeded, its encoder ended with code 0 and the stat succeeded;
\* otherwise it is the failure shape (error, downloadUrl "#",
\* application/octet-stream, no size).
C8_ShapeFollowsOutcome ==
  \A id \in Started :
    LET j == Job(id)
        e == j.result[1]
    IN  j.result # Undefined =>
          IF WriteOk(j) /\ ExitZero(j) /\ StatOk(j)
          THEN /\ IsSuccess(e)
               /\ e.newName = basename(j.outputFilePath)
               /\ e.mimeType = TargetMime(reqs[id[1]].format[1])
               /\ e.downloadUrl # <<"#">>
          ELSE /\ IsFailure(e)
               /\ e.downloadUrl = <<"#">>
               /\ e.mimeType = "application/octet-stream"
               /\ e.error # <<>>

\* one batch with a success, and a failure by a failed stat after exit code 0
C8_Witness ==
  \E r \in Requests :
    /\ Len(reqs[r].jobs) >= 2
    /\ Succeeded(reqs[r].jobs[1])
    /\ Failed(reqs[r].jobs[2])
    /\ ExitZero(reqs[r].jobs[2])
    /\ reqs[r].jobs[2].statted = Some(FALSE)

\* C9: the codec passed to the encoder is libvpx exactly when the format of
\* the job's output file is webm, and libx264 otherwise.
C9_CodecFollowsFormat ==
  \A id \in Started :
    Job(id).ffmpegArgs # Undefined =>
      Job(id).ffmpegArgs[1].cv =
        IF extname(basename(Job(id).outputFilePath)) = <<".", "w", "e", "b", "m">>
        THEN "libvpx" ELSE "libx264"

\* C10: a job calls fs.unlink at most once, on its own input path, after its
\* result is decided; a job whose result is decided, or that has completed,
\* has called it exactly once; the path belongs to no other job.
C10_OneUnlinkPerJob ==
  \A id \in Started :
    LET j == Job(id)
    IN  /\ Len(j.unlinks) <= 1
        /\ (j.result # Undefined \/ j.pc = "done") <=> Len(j.unlinks) = 1
        /\ \A k \in 1..Len(j.unlinks) :
             /\ j.unlinks[k] = j.inputFilePath
             /\ \A other \in Started \ {id} :
                  j.unlinks[k] \notin {Job(other).inputFilePath, Job(other).outputFilePath}

\* two completed jobs of one batch: one failed at spawn and saw both 'error'
\* and 'close', one succeeded; each unlinked once
C10_Witness ==
  \E r \in Requests :
    /\ Len(reqs[r].jobs) >= 2
    /\ \A i \in 1..2 : reqs[r].jobs[i].pc = "done" /\ Len(reqs[r].jobs[i].unlinks) = 1
    /\ Len(reqs[r].jobs[1].events) = 2
    /\ reqs[r].jobs[1].events[1].type = "error"
    /\ Succeeded(reqs[r].jobs[2])

\* the paths of a job, and the paths it handed to fs.writeFile, to the encoder
\* and to fs.unlink
JobPaths(j) == {j.inputFilePath, j.outputFilePath}
Touched(j) ==
  (IF j.wrote # Undefined THEN {j.inputFilePath} ELSE {}) \cup
  (IF j.ffmpegArgs # Undefined THEN {j.ffmpegArgs[1].i, j.ffmpegArgs[1].y} ELSE {}) \cup
  { j.unlinks[k] : k \in 1..Len(j.unlinks) }

\* C11: at every moment, over all jobs of all batches, the input path and the
\* output path of a job are two distinct paths directly under the scratch
\* root, no path of a job is a path of another job, and every path a job
\* writes, hands to the encoder or unlinks is one of its own.
C11_PathsNamespaced ==
  \A id \in Started :
    LET j == Job(id)
    IN  /\ j.inputFilePath # j.outputFilePath
        /\ \A p \in JobPaths(j) : InScratch(p) /\ Len(p) = Len(ScratchRoot) + 1
        /\ Touched(j) \subseteq JobPaths(j)
        /\ \A other \in Started \ {id} :
             JobPaths(j) \cap (JobPaths(Job(other)) \cup Touched(Job(other))) = {}

\* two batches overlap: a job of each, for files of the same name and the same
\* target format, has written its input and runs its encoder
C11_Witness ==
  \E r1, r2 \in Requests :
    /\ r1 # r2
    /\ reqs[r1].pc = "running" /\ reqs[r2].pc = "running"
    /\ reqs[r1].format = reqs[r2].format
    /\ reqs[r1].jobs[1].file = reqs[r2].jobs[1].file
    /\ \A r \in {r1, r2} :
         /\ reqs[r].jobs[1].pc = "process"
         /\ Exists(disk, reqs[r].jobs[1].inputFilePath)

\* C12: a request is answered at most once; an accepted batch is answered only
\* when every job of it has completed: its result is decided, its input was
\* unlinked and is gone, and no encoder of the batch is still running.
C12_AnsweredAfterAllDone ==
  \A r \in Requests :
    /\ reqs[r].responses <= 1
    /\ (reqs[r].response # Undefined) <=> (reqs[r].responses = 1)
    /\ (reqs[r].jobs # <<>> /\ reqs[r].responses > 0)
       => \A i \in 1..Len(reqs[r].jobs) :
            LET j == reqs[r].jobs[i]
            IN  /\ j.pc = "done"
                /\ j.result # Undefined
                /\ j.proc # "spawned"
                /\ j.promise # "pending"
                /\ Len(j.unlinks) = 1
                /\ ~Exists(disk, j.inputFilePath)

\* a batch of two files was answered, after both encoders were spawned: one
\* succeeded, the other could not be started and its 'close' is still to come
C12_Witness ==
  \E r \in Answered :
    /\ reqs[r].responses = 1
    /\ Len(reqs[r].jobs) = 2
    /\ Succeeded(reqs[r].jobs[1])
    /\ reqs[r].jobs[2].proc = "errored"

\* C13: a GET /download-video/<filename> that is answered while no file is at
\* path.join("/tmp", filename) is answered once, with status 404 and a text,
\* and the step changes neither the file system nor any conversion request.
C13_AbsentIs404 ==
  [][\A d \in DOMAIN dl :
       (/\ dl[d].pc \in {"access", "download"}
        /\ dl'[d].pc = "responded"
        /\ ~Exists(disk, dl[d].filePath))
       => /\ dl'[d].response # Undefined
          /\ dl'[d].response[1].status = 404
          /\ dl'[d].response[1].text \in {NotFoundResponse.text, GoneResponse.text}
          /\ dl'[d].sent = 1
          /\ disk' = disk /\ reqs' = reqs /\ used' = used]_vars

\* one request for a name no job had was answered 404 by the catch block, and
\* one for a job's input file, unlinked between fs.access and res.download, was
\* answered 404 by the callback
C13_Witness ==
  \E d1, d2 \in DOMAIN dl :
    /\ dl[d1].pc = "responded" /\ dl[d2].pc = "responded"
    /\ dl[d1].filename = MissingName
    /\ dl[d1].response = Some(NotFoundResponse)
    /\ dl[d2].response = Some(GoneResponse)
    /\ \E id \in Started : dl[d2].filePath = Job(id).inputFilePath

\* C14: no step of a GET /download-video request changes the file system or a
\* conversion request; a request for the newName of a completed successful
\* job, answered while other requests and jobs are in flight, is answered 200
\* with the content of the job's output file, the same content every earlier
\* request answered 200 for that name received.  (An error of the transfer
\* itself, after the headers were sent, is the environment's.)
C14_ServingLeavesArtifact ==
  [][/\ (dl' # dl) => (disk' = disk /\ reqs' = reqs /\ used' = used)
     /\ \A id \in Started :
          (Job(id).pc = "done" /\ Succeeded(Job(id)))
          => \A d \in DOMAIN dl :
               (/\ dl[d].filename = Job(id).result[1].newName
                /\ dl[d].pc \in {"access", "download"}
                /\ dl'[d].pc = "responded")
               => /\ dl'[d].response[1].status = 200
                  /\ dl'[d].response[1].size = disk[Job(id).outputFilePath]
                  /\ \A e \in DOMAIN dl \ {d} :
                       (/\ dl[e].pc = "responded"
                        /\ dl[e].filename = dl[d].filename
                        /\ dl[e].response[1].status = 200)
                       => /\ dl[e].response[1].file = dl'[d].response[1].file
                          /\ dl[e].response[1].size = dl'[d].response[1].size]_vars

\* the newName of a completed successful job was fetched twice, and both
\* requests received the whole file, of the same size, which is still there
C14_Witness ==
  \E id \in Started, d1, d2 \in DOMAIN dl :
    /\ d1 # d2
    /\ Job(id).pc = "done" /\ Succeeded(Job(id))
    /\ \A d \in {d1, d2} :
         /\ dl[d].pc = "responded"
         /\ dl[d].filename = Job(id).result[1].newName
         /\ dl[d].response[1].status = 200
         /\ dl[d].response[1].complete
         /\ dl[d].response[1].size = disk[Job(id).outputFilePath]
    /\ Exists(disk, Job(id).outputFilePath)

\* C15: for every filename the delivery endpoint receives, the path it checks
\* and streams lies strictly inside the scratch root: it reads no file outside
\* of it.
C15_DeliveryStaysInScratch ==
  \A d \in DOMAIN dl :
    /\ dl[d].pc # "none" => InScratch(dl[d].filePath)
    /\ (dl[d].response # Undefined /\ dl[d].response[1].status = 200)
       => InScratch(dl[d].response[1].file)

\* C16: within a job the steps come in the order write input, spawn encoder,
\* wait for its end, stat output, unlink input: the encoder is spawned only
\* after the write succeeded; the stat is made only after the encoder ended
\* with code 0; the unlink is called only once the result is decided.  When
\* the write fails no encoder is spawned, the entry is a failure and the unlink
\* is still called.
C16_StepsInOrder ==
  \A id \in Started :
    LET j == Job(id)
    IN  /\ j.pc = "writeFile" => (j.wrote = Undefined /\ j.proc = "none")
        /\ (j.proc # "none" \/ j.ffmpegArgs # Undefined)
           => (WriteOk(j) /\ j.proc # "none" /\ j.ffmpegArgs # Undefined)
        /\ j.pc = "process" => (j.events = <<>> /\ j.statted = Undefined)
        /\ j.events # <<>> => j.proc \in {"errored", "closed"}
        /\ (j.pc = "stat" \/ j.statted # Undefined) => ExitZero(j)
        /\ j.pc \in {"writeFile", "process", "stat"}
           => (j.result = Undefined /\ j.unlinks = <<>>)
        /\ j.unlinks # <<>> => j.result # Undefined
        /\ Succeeded(j) => StatOk(j)
        /\ j.wrote = Some(FALSE)
           => /\ j.proc = "none" /\ j.ffmpegArgs = Undefined /\ j.events = <<>>
              /\ j.statted = Undefined
              /\ Failed(j)
              /\ j.unlinks = <<j.inputFilePath>>
              /\ j.pc \in {"unlink", "done"}

\* a batch of which the write of the first file failed and its cleanup ran, and
\* the second file went through every step
C16_Witness ==
  \E r \in Requests :
    /\ Len(reqs[r].jobs) >= 2
    /\ reqs[r].jobs[1].wrote = Some(FALSE)
    /\ reqs[r].jobs[1].pc = "done"
    /\ Failed(reqs[r].jobs[1])
    /\ ~Exists(disk, reqs[r].jobs[1].inputFilePath)
    /\ reqs[r].jobs[2].pc = "done"
    /\ Succeeded(reqs[r].jobs[2])
    /\ reqs[r].jobs[2].proc = "closed"

\* the encoder of file i of request r was spawned and has emitted no terminal
\* event yet
EncoderPending(r, i) ==
  i \in DOMAIN reqs[r].jobs /\ reqs[r].jobs[i].proc = "spawned"

\* C17: if every encoder that is spawned eventually emits a terminal event
\* ('close' with any code, or 'error'), then every accepted batch is eventually
\* answered, with every job of it completed.
C17_NoHangOnProcessFailure ==
  (\A r \in 1..MaxReq, i \in 1..MaxFiles :
     [](EncoderPending(r, i) => <>(~EncoderPending(r, i))))
  => \A r \in 1..MaxReq :
       [](reqs[r].pc = "running"
          => <>(/\ reqs[r].pc = "responded"
                /\ \A i \in DOMAIN reqs[r].jobs : reqs[r].jobs[i].pc = "done"))

\* a batch was answered of which one encoder ended with a code other than 0 and
\* the other could not be started
C17_Witness ==
  \E r \in Answered :
    /\ Len(reqs[r].jobs) = 2
    /\ reqs[r].jobs[1].events # <<>>
    /\ reqs[r].jobs[1].events[1] = [type |-> "close", code |-> Some(1)]
    /\ reqs[r].jobs[2].events # <<>>
    /\ reqs[r].jobs[2].events[1].type = "error"

\* the job's encoder could not be started: its first terminal event is 'error'
SpawnFailed(j) == j.events # <<>> /\ j.events[1].type = "error"

\* the entry of a spawn failure
SpawnFailureEntry(j) ==
  [originalName |-> j.file.originalname,
   newName |-> j.file.originalname \o <<".", "error">>,
   mimeType |-> "application/octet-stream",
   downloadUrl |-> <<"#">>,
   error |-> <<"Failed to convert: ", "Failed to start FFmpeg: ", "spawn ffmpeg ENOENT">>]

\* C18: the entry of a job whose encoder could not be started is the
\* spawn-failure entry ("Failed to start FFmpeg"), never the encode-failure
\* entry, before and after the 'close' event that follows the 'error' event;
\* the step of that later event changes neither the job's result, position,
\* Promise and unlink calls nor the file system; the job has one entry in the
\* response and called fs.unlink once.
C18_FirstTerminalEventWins ==
  [][\A id \in Started :
       LET j == Job(id)
           k == reqs'[id[1]].jobs[id[2]]
       IN  /\ SpawnFailed(k)
              => /\ k.result = Some(SpawnFailureEntry(k))
                 /\ k.result[1].error[2] # "FFmpeg conversion failed: "
                 /\ k.promise = "rejected"
                 /\ k.unlinks = <<k.inputFilePath>>
                 /\ k.statted = Undefined
                 /\ reqs'[id[1]].pc = "responded"
                    => /\ Len(ConvertedFiles(id[1])') = Len(reqs'[id[1]].jobs)
                       /\ ConvertedFiles(id[1])'[id[2]] = SpawnFailureEntry(k)
           /\ (j.events # <<>> /\ Len(k.events) > Len(j.events))
              => /\ k.result = j.result
                 /\ k.pc = j.pc
                 /\ k.promise = j.promise
                 /\ k.unlinks = j.unlinks
                 /\ disk' = disk
                 /\ reqs'[id[1]].response = reqs[id[1]].response
                 /\ reqs'[id[1]].responses = reqs[id[1]].responses]_vars

\* a job whose encoder emitted 'error' and then 'close' has completed, and its
\* batch was answered with the spawn-failure entry for it
C18_Witness ==
  \E r \in Answered, i \in 1..MaxFiles :
    /\ i \in DOMAIN reqs[r].jobs
    /\ Len(reqs[r].jobs[i].events) = 2
    /\ reqs[r].jobs[i].events[1].type = "error"
    /\ reqs[r].jobs[i].events[2].type = "close"
    /\ reqs[r].jobs[i].pc = "done"
    /\ ConvertedFiles(r)[i] = SpawnFailureEntry(reqs[r].jobs[i])

\* C19: a GET /download-video request is answered at most once; a 404 is sent
\* only while no headers were sent; once the headers were sent (the file is
\* being streamed) an error of the transfer sends no other status or body.
C19_OneDeliveryResponse ==
  \A d \in DOMAIN dl :
    /\ dl[d].sent <= 1
    /\ (dl[d].response # Undefined) <=> (dl[d].sent = 1)
    /\ (dl[d].response # Undefined /\ dl[d].response[1].status = 404)
       => ~dl[d].headersSent
    /\ dl[d].headersSent
       => (dl[d].response # Undefined /\ dl[d].response[1].status = 200)

\* one request ended with an error of the transfer after the headers were sent,
\* another was answered 404 by the callback of res.download
C19_Witness ==
  \E d1, d2 \in DOMAIN dl :
    /\ dl[d1].pc = "responded"
    /\ dl[d1].headersSent
    /\ ~dl[d1].response[1].complete
    /\ dl[d1].sent = 1
    /\ dl[d2].pc = "responded"
    /\ dl[d2].response = Some(GoneResponse)
    /\ dl[d2].sent = 1

\* C20: once a job has completed with a failure entry, no file is at its
\* output path.
C20_NoOutputOfFailedJob ==
  \A id \in Started :
    (Job(id).pc = "done" /\ Failed(Job(id))) => ~Exists(disk, Job(id).outputFilePath)

\* C21: for every job with a success entry, whatever accepted format string
\* was sent, the MIME type the delivery handler derives from the extension of
\* the entry's newName is the entry's mimeType, video/mp4 or video/webm; a
\* delivery request for that newName carries it as its Content-Type.
C21_ContentTypeIsEntryMime ==
  \A id \in Started :
    Succeeded(Job(id)) =>
      LET e == Job(id).result[1]
      IN  /\ e.mimeType \in {"video/mp4", "video/webm"}
          /\ e.mimeType = TargetMime(reqs[id[1]].format[1])
          /\ MimeOfName(e.newName) = e.mimeType
          /\ \A d \in DOMAIN dl :
               (dl[d].filename = e.newName /\ dl[d].pc \in {"download", "responded"}
                /\ dl[d].mimeType # "")
               => /\ dl[d].mimeType = e.mimeType
                  /\ (dl[d].response # Undefined /\ dl[d].response[1].status = 200)
                     => dl[d].response[1].contentType = e.mimeType

\* a job for the format sent as "WEBM" succeeded, and the newName of its entry
\* was delivered with the Content-Type video/webm
C21_Witness ==
  \E id \in Started, d \in DOMAIN dl :
    /\ Succeeded(Job(id))
    /\ reqs[id[1]].format = Some(<<"W", "E", "B", "M">>)
    /\ dl[d].filename = Job(id).result[1].newName
    /\ dl[d].response # Undefined
    /\ dl[d].response[1].status = 200
    /\ dl[d].response[1].contentType = "video/webm"

====
